---- MODULE Spec2Model ----
(***************************************************************************)
(* A model of the Adam optimizer of qoc (src/qoc/standard/optimizers/      *)
(* adam.py): the constructor, run, update, and the numpy arithmetic that   *)
(* update performs on its arrays.                                          *)
(*                                                                         *)
(* Numbers.  A Python/numpy float is modelled as a decimal fixed-point     *)
(* number with eight fractional digits (the integer x stands for           *)
(* x / 10^8), so that the defaults 0.9, 0.999, 1e-3 and 1e-8 are exact,    *)
(* together with the IEEE special values NaN, +Inf and -Inf, which numpy   *)
(* produces for 0/0 and x/0 instead of raising.  Products and quotients    *)
(* are truncated toward zero; they are computed limb by limb so that no    *)
(* intermediate value leaves the 32-bit range of the checker's integers.   *)
(* Signed zeros are not distinguished.  An array is a sequence of numbers  *)
(* (a flattened ndarray).                                                  *)
(***************************************************************************)
EXTENDS Integers, Sequences, FiniteSets, TLC

(***************************************************************************)
(* Fixed-point floats                                                      *)
(***************************************************************************)
Half == 100 * 100
Scale == Half * Half
MaxFinite == 20 * Scale
PosInf == MaxFinite + 1
NegInf == -PosInf
NaN == MaxFinite + 2
\* Python's None where a float option may be absent
None == -NaN
\* Python's None where an array may be absent; the arrays of the model
\* have at least one element
NoneArray == <<>>

IsNaN(a) == a = NaN
IsInf(a) == a = PosInf \/ a = NegInf
IsFinite(a) == a >= -MaxFinite /\ a <= MaxFinite

Abs(a) == IF a < 0 THEN -a ELSE a
Sgn(a) == IF a < 0 THEN -1 ELSE IF a > 0 THEN 1 ELSE 0
Min(a, b) == IF a <= b THEN a ELSE b
Max(a, b) == IF a >= b THEN a ELSE b

\* the fixed-point number of the integer n
Int2F(n) == n * Scale

\* floor(a * b / Scale) for a, b >= 0, without leaving 32 bits
MulMag(a, b) ==
    LET ah == a \div Half
        al == a % Half
        bh == b \div Half
        bl == b % Half
        t1 == ah * bl
        t2 == al * bh
    IN  ah * bh + (t1 \div Half) + (t2 \div Half)
        + ((((t1 % Half) + (t2 % Half)) * Half + al * bl) \div Scale)

\* <<floor(10 * r / b), (10 * r) % b>> for 0 <= r < b, by ten additions
RECURSIVE TimesTen(_, _, _, _, _)
TimesTen(r, b, acc, d, i) ==
    IF r <= 2 * Scale THEN <<(10 * r) \div b, (10 * r) % b>>
    ELSE IF i = 0 THEN <<d, acc>>
    ELSE LET s == acc + r
         IN  IF s >= b THEN TimesTen(r, b, s - b, d + 1, i - 1)
             ELSE TimesTen(r, b, s, d, i - 1)

\* the k decimal digits of r / b after the point, as an integer
RECURSIVE Digits(_, _, _, _)
Digits(r, b, k, q) ==
    IF k = 0 THEN q
    ELSE LET t == TimesTen(r, b, 0, 0, 10)
         IN  Digits(t[2], b, k - 1, 10 * q + t[1])

\* floor(a * Scale / b) for a >= 0, b > 0
DivMag(a, b) == (a \div b) * Scale + Digits(a % b, b, 8, 0)

\* a + b
FAdd(a, b) ==
    IF IsNaN(a) \/ IsNaN(b) THEN NaN
    ELSE IF IsInf(a) /\ IsInf(b) THEN (IF a = b THEN a ELSE NaN)
    ELSE IF IsInf(a) THEN a
    ELSE IF IsInf(b) THEN b
    ELSE a + b

\* -a
FNeg(a) == IF IsNaN(a) THEN NaN ELSE -a

\* a - b
FSub(a, b) == FAdd(a, FNeg(b))

\* a * b
FMul(a, b) ==
    IF IsNaN(a) \/ IsNaN(b) THEN NaN
    ELSE IF IsInf(a) \/ IsInf(b)
         THEN (IF a = 0 \/ b = 0 THEN NaN
               ELSE IF Sgn(a) * Sgn(b) > 0 THEN PosInf ELSE NegInf)
    ELSE Sgn(a) * Sgn(b) * MulMag(Abs(a), Abs(b))

\* np.divide(a, b): a / b, with numpy's nan and inf for a zero divisor
FDiv(a, b) ==
    IF IsNaN(a) \/ IsNaN(b) THEN NaN
    ELSE IF IsInf(a) THEN (IF IsInf(b) THEN NaN
                           ELSE IF Sgn(a) * (IF b < 0 THEN -1 ELSE 1) > 0
                                THEN PosInf ELSE NegInf)
    ELSE IF IsInf(b) THEN 0
    ELSE IF b = 0 THEN (IF a = 0 THEN NaN
                        ELSE IF a > 0 THEN PosInf ELSE NegInf)
    ELSE Sgn(a) * Sgn(b) * DivMag(Abs(a), Abs(b))

\* Newton's iteration for floor(sqrt(a)) on integers, from a guess y above it
RECURSIVE IntSqrt(_, _)
IntSqrt(a, y) ==
    LET z == (y + (a \div y)) \div 2
    IN  IF z >= y THEN y ELSE IntSqrt(a, z)

\* a power of ten above sqrt(a)
RECURSIVE IntSqrtGuess(_, _)
IntSqrtGuess(a, y) ==
    IF y >= 10 * Half \/ y * y >= a THEN y ELSE IntSqrtGuess(a, 10 * y)

\* Newton's iteration for floor(sqrt(a * Scale)), from a guess y above it
RECURSIVE Newton(_, _)
Newton(a, y) ==
    LET z == (y + DivMag(a, y)) \div 2
    IN  IF z >= y THEN y ELSE Newton(a, z)

\* np.sqrt(a); (floor(sqrt(a)) + 1) * sqrt(Scale) is a guess above the root
FSqrt(a) ==
    IF IsNaN(a) \/ a < 0 THEN NaN
    ELSE IF a = PosInf THEN PosInf
    ELSE IF a = 0 THEN 0
    ELSE Newton(a, (IntSqrt(a, IntSqrtGuess(a, 1)) + 1) * Half)

\* np.square(a)
FSquare(a) == FMul(a, a)

\* np.power(a, n) for an integer n >= 0, by repeated multiplication
RECURSIVE FPow(_, _)
FPow(a, n) == IF n = 0 THEN Scale ELSE FMul(a, FPow(a, n - 1))

\* Taylor's series of exp(x) for a small |x|, summed until the terms vanish
RECURSIVE ExpSeries(_, _, _, _)
ExpSeries(x, term, k, acc) ==
    IF term = 0 THEN acc
    ELSE LET next == Sgn(term) * Sgn(x) * (MulMag(Abs(term), Abs(x)) \div k)
         IN  ExpSeries(x, next, k + 1, acc + term)

\* exp(x) for a finite x: halve the argument until it is small, then square
RECURSIVE ExpFinite(_)
ExpFinite(x) ==
    IF Abs(x) <= Scale \div 4 THEN ExpSeries(x, Scale, 1, 0)
    ELSE LET h == ExpFinite(Sgn(x) * (Abs(x) \div 2))
         IN  MulMag(h, h)

\* np.exp(a); a result above the model's finite range overflows to inf
FExp(a) ==
    IF IsNaN(a) THEN NaN
    ELSE IF a = PosInf \/ a > 29 * (Scale \div 10) THEN PosInf
    ELSE IF a = NegInf THEN 0
    ELSE ExpFinite(a)

(***************************************************************************)
(* numpy arrays: element-wise operations on flattened arrays               *)
(***************************************************************************)
\* np.zeros_like(a)
zeros_like(a) == [j \in DOMAIN a |-> 0]

\* scalar * array
ScalarTimes(c, a) == [j \in DOMAIN a |-> FMul(c, a[j])]

\* array / scalar
OverScalar(a, c) == [j \in DOMAIN a |-> FDiv(a[j], c)]

\* array + array and array - array, for equal shapes
ArrayAdd(a, b) == [j \in DOMAIN a |-> FAdd(a[j], b[j])]
ArraySub(a, b) == [j \in DOMAIN a |-> FSub(a[j], b[j])]

\* np.divide(a, b) for equal shapes
ArrayDivide(a, b) == [j \in DOMAIN a |-> FDiv(a[j], b[j])]

\* np.square(a), np.sqrt(a), array + scalar
ArraySquare(a) == [j \in DOMAIN a |-> FSquare(a[j])]
ArraySqrt(a) == [j \in DOMAIN a |-> FSqrt(a[j])]
PlusScalar(a, c) == [j \in DOMAIN a |-> FAdd(a[j], c)]

\* the sum of the elements of a
RECURSIVE SumTo(_, _)
SumTo(a, k) == IF k = 0 THEN 0 ELSE FAdd(SumTo(a, k - 1), a[k])

\* np.linalg.norm(a): the 2-norm of the flattened array
norm(a) == FSqrt(SumTo(ArraySquare(a), Len(a)))

\* np.minimum and np.maximum of two scalars: a nan operand gives nan
FMinimum(a, b) == IF IsNaN(a) \/ IsNaN(b) THEN NaN ELSE Min(a, b)
FMaximum(a, b) == IF IsNaN(a) \/ IsNaN(b) THEN NaN ELSE Max(a, b)

\* np.clip(a, a_min, a_max) = minimum(a_max, maximum(a, a_min))
clip(a, a_min, a_max) ==
    [j \in DOMAIN a |-> FMinimum(a_max, FMaximum(a[j], a_min))]

(***************************************************************************)
(* The parameter codec the module test takes from qoc.core.common:         *)
(* strip_params and slap_params.  A two-dimensional array is a sequence of *)
(* rows, a complex number a record of its real and imaginary part.         *)
(***************************************************************************)
Complex(re, im) == [re |-> re, im |-> im]

\* ndarray.flatten(): the rows one after the other
RECURSIVE flatten(_)
flatten(a) == IF a = <<>> THEN <<>> ELSE Head(a) \o flatten(Tail(a))

\* np.reshape(a, shape) of a flat array a
reshape(a, shape) ==
    [r \in 1..shape[1] |-> [c \in 1..shape[2] |-> a[(r - 1) * shape[2] + c]]]

\* the real parts of a flat complex array, then its imaginary parts
complex_to_real_imag_flat(x) ==
    [j \in 1..Len(x) |-> x[j].re] \o [j \in 1..Len(x) |-> x[j].im]

\* a recombination that pairs neighbours, as if the parts were interleaved
real_imag_to_complex_interleaved(x) ==
    [j \in 1..(Len(x) \div 2) |-> Complex(x[2 * j - 1], x[2 * j])]

\* the first half of a flat real array as real parts, the second half as
\* imaginary parts
real_imag_to_complex_flat(x) ==
    [j \in 1..(Len(x) \div 2) |-> Complex(x[j], x[(Len(x) \div 2) + j])]

\* encode: flatten, and split complex values into real and imaginary parts
strip_params(gstate, params) ==
    IF gstate.complex_params
    THEN complex_to_real_imag_flat(flatten(params))
    ELSE flatten(params)

\* decode: recombine complex values, and restore the declared shape
slap_params(gstate, params) ==
    reshape(IF gstate.complex_params
            THEN real_imag_to_complex_flat(params)
            ELSE params,
            gstate.params_shape)

(***************************************************************************)
(* class Adam                                                              *)
(***************************************************************************)
\* Adam.__init__, lines 50-73: whether the constructor raises for these
\* arguments; it holds no raise statement and examines no value
InitRaises(args) == FALSE

\* a constructor that clamps beta_1, beta_2 and epsilon into their ranges
AdamClamped(beta_1, beta_2, clip_grads, epsilon, learning_rate, learning_rate_decay, scale_grads) ==
    [apply_scale_grads |-> scale_grads # None,
     apply_clip_grads |-> clip_grads # None,
     apply_learning_rate_decay |-> learning_rate_decay # None,
     beta_1 |-> Max(beta_1, 0),
     beta_2 |-> Max(beta_2, 0),
     clip_grads |-> clip_grads,
     epsilon |-> Max(epsilon, 1),
     gradient_moment |-> NoneArray,
     gradient_square_moment |-> NoneArray,
     initial_learning_rate |-> learning_rate,
     iteration_count |-> 0,
     learning_rate |-> learning_rate,
     learning_rate_decay |-> learning_rate_decay,
     scale_grads |-> scale_grads]

\* Adam.__init__: the fields of a new instance; no argument is examined
\* beyond its being None
Adam(beta_1, beta_2, clip_grads, epsilon, learning_rate, learning_rate_decay, scale_grads) ==
    [apply_scale_grads |-> scale_grads # None,
     apply_clip_grads |-> clip_grads # None,
     apply_learning_rate_decay |-> learning_rate_decay # None,
     beta_1 |-> beta_1,
     beta_2 |-> beta_2,
     clip_grads |-> clip_grads,
     epsilon |-> epsilon,
     gradient_moment |-> NoneArray,
     gradient_square_moment |-> NoneArray,
     initial_learning_rate |-> learning_rate,
     iteration_count |-> 0,
     learning_rate |-> learning_rate,
     learning_rate_decay |-> learning_rate_decay,
     scale_grads |-> scale_grads]

\* an update that never applies the decay
DecayedRateIgnored(self) == self.initial_learning_rate

\* a decay that reads the count after line 150 has incremented it
DecayedRateAfterIncrement(self) ==
    IF self.apply_learning_rate_decay
    THEN FMul(self.initial_learning_rate,
              FExp(FNeg(FDiv(Int2F(self.iteration_count + 1),
                             self.learning_rate_decay))))
    ELSE self.initial_learning_rate

\* update, lines 131-137: the step size of this call
DecayedRate(self) ==
    IF self.apply_learning_rate_decay
    THEN FMul(self.initial_learning_rate,
              FExp(FNeg(FDiv(Int2F(self.iteration_count),
                             self.learning_rate_decay))))
    ELSE self.initial_learning_rate

\* update, lines 139-142: gradient scaling
ScaleGrads(self, grads) ==
    IF self.apply_scale_grads
    THEN LET grads_norm == norm(grads)
         IN  ScalarTimes(self.scale_grads, OverScalar(grads, grads_norm))
    ELSE grads

\* update, lines 144-146: gradient clipping
ClipGrads(self, grads) ==
    IF self.apply_clip_grads
    THEN clip(grads, FNeg(self.clip_grads), self.clip_grads)
    ELSE grads

\* update, lines 139-146: scaling, then clipping
Preprocess(self, grads) == ClipGrads(self, ScaleGrads(self, grads))

\* an update that forgets to count itself
IncrementForgotten(n) == n

\* update, line 150
Increment(n) == n + 1

\* an update without bias correction
BiasCorrectOmitted(moment, beta, count) == moment

\* update, lines 158-161: np.divide(moment, 1 - np.power(beta, count))
BiasCorrect(moment, beta, count) ==
    OverScalar(moment, FSub(Scale, FPow(beta, count)))

\* an update that sets moments that are still None to zeros itself
MomentOperandsLazy(self, params) ==
    [gradient_moment |->
         IF self.gradient_moment = NoneArray THEN zeros_like(params)
         ELSE self.gradient_moment,
     gradient_square_moment |->
         IF self.gradient_square_moment = NoneArray THEN zeros_like(params)
         ELSE self.gradient_square_moment]

\* update, lines 154 and 156: the moments as the two lines read them
MomentOperands(self, params) ==
    [gradient_moment |-> self.gradient_moment,
     gradient_square_moment |-> self.gradient_square_moment]

\* an update that scales and clips its grads argument in place and
\* subtracts the step from its params argument in place
CallerArraysInPlace(grads_in, grads, params, new_params) ==
    [grads |-> grads, params |-> new_params]

\* update, lines 142, 146 and 163-165: the caller's two arrays after the
\* call.  Each statement builds a new array and binds a local name to it,
\* so the arrays the caller passed are as they were.
CallerArrays(grads_in, grads, params, new_params) ==
    [grads |-> grads_in, params |-> params]

\* Adam.update(grads, params): the instance after the call, what the call
\* returns (ret) or that it raised, and the values of its locals
\* learning_rate, grads and iteration_count.  With a moment that is still
\* None line 154 raises TypeError, after line 150 has counted the call.
update(self, grads_in, params) ==
    LET learning_rate == DecayedRate(self)
        grads == Preprocess(self, grads_in)
        iteration_count == Increment(self.iteration_count)
        beta_1 == self.beta_1
        beta_2 == self.beta_2
        counted == [self EXCEPT !.iteration_count = iteration_count]
        locals == [learning_rate |-> learning_rate, grads |-> grads,
                   iteration_count |-> iteration_count]
        old == MomentOperands(self, params)
    IN  IF old.gradient_moment = NoneArray
            \/ old.gradient_square_moment = NoneArray
        THEN [self |-> counted, raised |-> TRUE, ret |-> NoneArray,
              locals |-> locals,
              args |-> CallerArrays(grads_in, grads, params, params)]
        ELSE
        LET gradient_moment ==
                ArrayAdd(ScalarTimes(beta_1, old.gradient_moment),
                         ScalarTimes(FSub(Scale, beta_1), grads))
            gradient_square_moment ==
                ArrayAdd(ScalarTimes(beta_2, old.gradient_square_moment),
                         ScalarTimes(FSub(Scale, beta_2), ArraySquare(grads)))
            gradient_moment_hat ==
                BiasCorrect(gradient_moment, beta_1, iteration_count)
            gradient_square_moment_hat ==
                BiasCorrect(gradient_square_moment, beta_2, iteration_count)
            new_params ==
                ArraySub(params,
                    ScalarTimes(learning_rate,
                        ArrayDivide(gradient_moment_hat,
                            PlusScalar(ArraySqrt(gradient_square_moment_hat),
                                       self.epsilon))))
        IN  [self |-> [counted EXCEPT
                          !.gradient_moment = gradient_moment,
                          !.gradient_square_moment = gradient_square_moment],
             raised |-> FALSE,
             ret |-> new_params,
             locals |-> locals,
             args |-> CallerArrays(grads_in, grads, params, new_params)]

\* a reset that initializes the moments only when they are still None
ResetOnlyUnset(self, initial_params) ==
    [self EXCEPT !.iteration_count = 0,
                 !.gradient_moment =
                     IF @ = NoneArray THEN zeros_like(initial_params) ELSE @,
                 !.gradient_square_moment =
                     IF @ = NoneArray THEN zeros_like(initial_params) ELSE @]

\* a reset that leaves the iteration count alone
ResetKeepsCount(self, initial_params) ==
    [self EXCEPT !.gradient_moment = zeros_like(initial_params),
                 !.gradient_square_moment = zeros_like(initial_params)]

\* Adam.run, lines 100-102: the reset
Reset(self, initial_params) ==
    [self EXCEPT !.iteration_count = 0,
                 !.gradient_moment = zeros_like(initial_params),
                 !.gradient_square_moment = zeros_like(initial_params)]

(***************************************************************************)
(* The inputs the model draws from                                         *)
(***************************************************************************)
\* the largest iteration budget given to run
MaxIter == 2
\* update is not called by the caller once iteration_count has reached this
MaxCount == 2

\* n / 10^k as a fixed-point number
Milli(n) == n * (Scale \div 1000)

\* the defaults of Adam.__init__ (lines 42-44)
DefaultBeta1 == Milli(900)
DefaultBeta2 == Milli(999)
DefaultEpsilon == 1
DefaultLearningRate == Milli(1)

\* the arguments of Adam(), as the module test constructs it (line 177)
DefaultArgs ==
    [beta_1 |-> DefaultBeta1, beta_2 |-> DefaultBeta2, clip_grads |-> None,
     epsilon |-> DefaultEpsilon, learning_rate |-> DefaultLearningRate,
     learning_rate_decay |-> None, scale_grads |-> None]

\* constructor arguments within the documented meaning of each option
ValidArgs ==
    [beta_1 : {DefaultBeta1}, beta_2 : {DefaultBeta2},
     clip_grads : {None, Milli(500)},
     epsilon : {DefaultEpsilon}, learning_rate : {DefaultLearningRate},
     learning_rate_decay : {None, Int2F(2)},
     scale_grads : {None, Int2F(1)}]

\* constructor arguments that contradict the meaning of beta_1, beta_2 or
\* epsilon, next to the defaults
AnyArgs ==
    [beta_1 : {DefaultBeta1, -Milli(100)}, beta_2 : {DefaultBeta2, -Milli(500)},
     clip_grads : {None},
     epsilon : {DefaultEpsilon, 0}, learning_rate : {DefaultLearningRate},
     learning_rate_decay : {None},
     scale_grads : {None}]

\* constructor arguments with a decay constant of either sign or zero:
\* __init__ takes any value that is not None as a decay constant
DecayArgs ==
    [beta_1 : {DefaultBeta1}, beta_2 : {DefaultBeta2},
     clip_grads : {None},
     epsilon : {DefaultEpsilon}, learning_rate : {DefaultLearningRate},
     learning_rate_decay : {Int2F(2), -Int2F(2), 0},
     scale_grads : {None}]

\* constructor arguments with gradient scaling
ScaledArgs ==
    [beta_1 : {DefaultBeta1}, beta_2 : {DefaultBeta2},
     clip_grads : {None, Milli(500)},
     epsilon : {DefaultEpsilon}, learning_rate : {DefaultLearningRate},
     learning_rate_decay : {None},
     scale_grads : {Int2F(1)}]

\* the arrays of the module test (lines 180-185), flattened
TestParams == <<0, Int2F(1), Int2F(2), Int2F(3)>>
TestGrads == <<0, Int2F(1), Int2F(2), Int2F(3)>>
TestParams1 == <<0, Milli(999), Milli(1999), Milli(2999)>>
TestParams2 == <<0, Milli(999) + 3, Milli(1999) + 1, Milli(2999) + 1>>

\* np.allclose(a, b) of the module test (lines 193-194), with numpy's
\* tolerances rtol = 1e-5 and atol = 1e-8
AllClose(a, b) ==
    /\ Len(a) = Len(b)
    /\ \A j \in DOMAIN a :
           /\ IsFinite(a[j])
           /\ Abs(a[j] - b[j]) <= 1 + MulMag(Scale \div 100000, Abs(b[j]))

\* initial parameters given to run
InitialParams == {TestParams, <<Int2F(1), -Int2F(2)>>}

\* what the jacobian may return for parameters of a shape
Grads(shape) ==
    IF shape = 4 THEN {TestGrads, <<0, 0, 0, 0>>}
    ELSE {<<0, 0>>, <<-Int2F(2), Int2F(1)>>, <<Int2F(3), 0>>}

\* the gradients the caller may hand to update
CallerGrads(shape) ==
    IF shape = 4 THEN {TestGrads, <<0, 0, 0, 0>>, TestParams1}
    ELSE Grads(shape)

\* a gradient element that is not zero and whose square underflows to zero,
\* as 1e-200 does in float64
TinyGradient == Scale \div (10 * Half)

\* gradients that are not zero, some of them with elements that small
UnderflowGrads(shape) ==
    IF shape = 4 THEN {TestGrads, <<0, TinyGradient, 0, -TinyGradient>>}
    ELSE {<<TinyGradient, 0>>, <<-Int2F(2), Int2F(1)>>, <<Int2F(3), 0>>}

\* the shape metadata of the module test (lines 197-198, 203-204)
Gstate(complex_params, params_shape) ==
    [complex_params |-> complex_params, params_shape |-> params_shape,
     max_param_norms |-> [r \in 1..params_shape[1] |-> Int2F(10)]]

\* the complex arrays of the module test (lines 199-202)
TestComplexGrads ==
    <<<<Complex(Int2F(1), Int2F(1)), Complex(0, 0)>>,
      <<Complex(0, 0), Complex(-Int2F(1), -Int2F(1))>>>>
TestComplexParams ==
    <<<<Complex(Int2F(1), Int2F(2)), Complex(Int2F(3), Int2F(4))>>,
      <<Complex(Int2F(5), Int2F(6)), Complex(Int2F(7), Int2F(8))>>>>

\* the numbers the other arrays of the codec are made of
CodecReals == {0, Int2F(1), -Milli(1500)}
CodecComplexes ==
    {Complex(0, 0), Complex(Int2F(1), -Milli(1500)),
     Complex(-Milli(1500), Int2F(1)), Complex(0, Int2F(1))}

\* the arrays of a shape over a set of numbers
Arrays(shape, numbers) == [1..shape[1] -> [1..shape[2] -> numbers]]

\* what the caller encodes: the arrays of the module test, and real and
\* complex arrays of one row or one column
CodecInputs ==
    {[gstate |-> Gstate(TRUE, <<2, 2>>), params |-> TestComplexParams,
      grads |-> TestComplexGrads]}
    \cup UNION {[gstate : {Gstate(TRUE, shape)},
                 params : Arrays(shape, CodecComplexes),
                 grads : Arrays(shape, {Complex(0, 0), Complex(Int2F(1), 0)})] :
                shape \in {<<1, 2>>, <<2, 1>>}}
    \cup UNION {[gstate : {Gstate(FALSE, shape)},
                 params : Arrays(shape, CodecReals),
                 grads : Arrays(shape, {0, Int2F(1)})] :
                shape \in {<<1, 2>>, <<2, 1>>}}

(***************************************************************************)
(* State                                                                   *)
(***************************************************************************)
VARIABLES
    adam,          \* the fields of the Adam instance
    ctor_args,     \* the arguments __init__ was called with
    pc,            \* "caller": no call is active; "for": run is at line 105;
                   \* "update": run is at line 107; "failed": __init__ raised
                   \* and there is no instance
    run,           \* the arguments and locals of the most recent run call,
                   \* and the caller's initial_params array as it is now
                   \* (initial_array)
    outcome,       \* the most recent call of the caller and how it ended
    frame,         \* the most recent update call since the last reset: its
                   \* arguments, its locals, what it returned, and the
                   \* caller's two arrays after the call (grads_arg,
                   \* params_arg)
    trace,         \* the calls since the most recent run began: the
                   \* jacobian and update calls of that run, then the
                   \* caller's update calls
    update_calls,  \* the update calls since the most recent run began
    function_calls, \* the calls of run's function argument
    codec          \* the arrays the caller has encoded and decoded

vars == <<adam, ctor_args, pc, run, outcome, frame, trace, update_calls, function_calls, codec>>

NoCodec ==
    [gstate |-> Gstate(FALSE, <<0, 0>>), params |-> NoneArray,
     grads |-> NoneArray, flat_params |-> NoneArray,
     flat_grads |-> NoneArray, decoded |-> NoneArray, params1 |-> NoneArray]

NoFrame ==
    [called |-> FALSE, raised |-> FALSE, grads_in |-> NoneArray,
     params |-> NoneArray, ret |-> NoneArray, learning_rate |-> 0,
     grads |-> NoneArray, iteration_count |-> 0,
     grads_arg |-> NoneArray, params_arg |-> NoneArray]

Frame(grads_in, params, u) ==
    [called |-> TRUE, raised |-> u.raised, grads_in |-> grads_in,
     params |-> params, ret |-> u.ret,
     learning_rate |-> u.locals.learning_rate, grads |-> u.locals.grads,
     iteration_count |-> u.locals.iteration_count,
     grads_arg |-> u.args.grads, params_arg |-> u.args.params]

Event(op, params, grads, ret) ==
    [op |-> op, params |-> params, grads |-> grads, ret |-> ret]

\* adam = Adam(**args)
Construct(args) ==
    /\ ctor_args = args
    /\ adam = Adam(args.beta_1, args.beta_2, args.clip_grads, args.epsilon,
                   args.learning_rate, args.learning_rate_decay,
                   args.scale_grads)
    /\ pc = IF InitRaises(args) THEN "failed" ELSE "caller"
    /\ run = [iteration_count |-> 0, initial_params |-> NoneArray,
              params |-> NoneArray, grads |-> NoneArray, i |-> 0,
              stale |-> FALSE, initial_array |-> NoneArray]
    /\ outcome = [call |-> "__init__",
                  status |-> IF InitRaises(args) THEN "raised" ELSE "returned"]
    /\ frame = NoFrame
    /\ trace = <<>>
    /\ update_calls = 0
    /\ function_calls = 0
    /\ codec = NoCodec

Init == \E args \in ValidArgs : Construct(args)

InitAny == \E args \in AnyArgs : Construct(args)

InitDecay == \E args \in DecayArgs : Construct(args)

InitScaled == \E args \in ScaledArgs : Construct(args)

InitCodec == Construct(DefaultArgs)

(***************************************************************************)
(* Adam.run, step by step: the jacobian is the caller's code               *)
(***************************************************************************)
\* run, lines 100-104: the reset and params = initial_params
RunEnter(iteration_count, initial_params) ==
    /\ pc = "caller"
    /\ adam' = Reset(adam, initial_params)
    /\ run' = [iteration_count |-> iteration_count,
               initial_params |-> initial_params,
               params |-> initial_params, grads |-> NoneArray, i |-> 0,
               stale |-> adam.iteration_count > 0,
               initial_array |-> initial_params]
    /\ pc' = "for"
    /\ outcome' = [call |-> "run", status |-> "active"]
    /\ frame' = NoFrame
    /\ trace' = <<>>
    /\ update_calls' = 0
    /\ UNCHANGED <<ctor_args, codec, function_calls>>

\* run, line 105: whether the loop has another iteration
LoopContinues(r) == r.i < r.iteration_count

\* a loop that hands the jacobian the initial parameters every time
JacobianArgInitial(r) == r.initial_params

\* run, line 106: what the jacobian is called with
JacobianArg(r) == r.params

\* run, line 106: the jacobian returns grads
RunJacobian(grads) ==
    /\ pc = "for"
    /\ LoopContinues(run)
    /\ run' = [run EXCEPT !.grads = grads]
    /\ trace' = Append(trace, Event("jacobian", JacobianArg(run), grads, NoneArray))
    /\ pc' = "update"
    /\ UNCHANGED <<adam, ctor_args, codec, outcome, frame, update_calls, function_calls>>

\* a run that swallows the exception and goes round the loop again
AfterJacobianRaisedRetry == "for"

\* where run continues after the jacobian has raised: nothing catches the
\* exception, so control is back with the caller
AfterJacobianRaised == "caller"

\* run, line 106: the jacobian raises
RunJacobianRaises ==
    /\ pc = "for"
    /\ LoopContinues(run)
    /\ trace' = Append(trace, Event("jacobian_raised", JacobianArg(run), NoneArray, NoneArray))
    /\ pc' = AfterJacobianRaised
    /\ outcome' = IF AfterJacobianRaised = "caller"
                  THEN [call |-> "run", status |-> "raised"] ELSE outcome
    /\ UNCHANGED <<adam, ctor_args, codec, run, frame, update_calls, function_calls>>

\* run, line 107: params = self.update(grads, params).  In the first
\* iteration params is the caller's initial_params array itself (line 104).
RunUpdate ==
    /\ pc = "update"
    /\ LET u == update(adam, run.grads, run.params)
           initial_array == IF run.i = 0 THEN u.args.params
                            ELSE run.initial_array
       IN  /\ adam' = u.self
           /\ frame' = Frame(run.grads, run.params, u)
           /\ trace' = Append(trace, Event("update", run.params, run.grads, u.ret))
           /\ IF u.raised
              THEN /\ pc' = "caller"
                   /\ outcome' = [call |-> "run", status |-> "raised"]
                   /\ run' = [run EXCEPT !.initial_array = initial_array]
              ELSE /\ pc' = "for"
                   /\ outcome' = outcome
                   /\ run' = [run EXCEPT !.params = u.ret, !.i = @ + 1,
                                         !.initial_array = initial_array]
    /\ update_calls' = update_calls + 1
    /\ UNCHANGED <<ctor_args, codec, function_calls>>

\* run, line 105: the loop is over and run returns None
RunReturn ==
    /\ pc = "for"
    /\ ~LoopContinues(run)
    /\ pc' = "caller"
    /\ outcome' = [call |-> "run", status |-> "returned"]
    /\ UNCHANGED <<adam, ctor_args, codec, run, frame, trace, update_calls, function_calls>>

(***************************************************************************)
(* Adam.update, called by the caller (as the module test does)             *)
(***************************************************************************)
\* the parameters the caller hands to update: those of the last run, or
\* what the previous update returned
CallerParams ==
    (IF run.initial_params = NoneArray THEN InitialParams ELSE {run.initial_params})
    \cup (IF frame.called /\ ~frame.raised THEN {frame.ret} ELSE {})

Update(grads, params) ==
    /\ pc = "caller"
    /\ adam.iteration_count < MaxCount
    /\ Len(grads) = Len(params)
    /\ LET u == update(adam, grads, params)
       IN  /\ adam' = u.self
           /\ frame' = Frame(grads, params, u)
           /\ outcome' = [call |-> "update",
                          status |-> IF u.raised THEN "raised" ELSE "returned"]
           /\ trace' = Append(trace, Event("caller_update", params, grads, u.ret))
    /\ update_calls' = update_calls + 1
    /\ UNCHANGED <<ctor_args, codec, pc, run, function_calls>>

Next ==
    \/ \E n \in 0..MaxIter, p \in InitialParams : RunEnter(n, p)
    \/ \E g \in Grads(Len(run.params)) : RunJacobian(g)
    \/ RunJacobianRaises
    \/ RunUpdate
    \/ RunReturn
    \/ \E p \in CallerParams : \E g \in CallerGrads(Len(p)) : Update(g, p)

Spec == Init /\ [][Next]_vars

\* the same program, constructed with any arguments
SpecAny == InitAny /\ [][Next]_vars

\* the same program, constructed with any decay constant
SpecDecay == InitDecay /\ [][Next]_vars

\* the steps of the program with gradients that are never all zero
NextUnderflow ==
    \/ \E n \in 0..MaxIter, p \in InitialParams : RunEnter(n, p)
    \/ \E g \in UnderflowGrads(Len(run.params)) : RunJacobian(g)
    \/ RunJacobianRaises
    \/ RunUpdate
    \/ RunReturn
    \/ \E p \in CallerParams : \E g \in UnderflowGrads(Len(p)) : Update(g, p)

\* the program with gradient scaling and such gradients
SpecUnderflow == InitScaled /\ [][NextUnderflow]_vars

(***************************************************************************)
(* The module test's use of the codec (lines 196-215)                      *)
(***************************************************************************)
\* lines 197-208: the caller encodes its parameters and gradients
TestStrip(gstate, params, grads) ==
    /\ pc = "caller"
    /\ codec = NoCodec
    /\ codec' = [NoCodec EXCEPT !.gstate = gstate,
                                !.params = params,
                                !.grads = grads,
                                !.flat_params = strip_params(gstate, params),
                                !.flat_grads = strip_params(gstate, grads)]
    /\ UNCHANGED <<adam, ctor_args, pc, run, outcome, frame, trace, update_calls, function_calls>>

\* line 210: adam.run(None, None, 0, flat_params, None)
TestRun ==
    /\ codec.flat_params # NoneArray
    /\ RunEnter(0, codec.flat_params)

\* line 211: params1 = adam.update(flat_grads, flat_params)
TestUpdate ==
    /\ codec.flat_params # NoneArray
    /\ Update(codec.flat_grads, codec.flat_params)

\* line 212: params1 = slap_params(gstate, params1)
TestSlap ==
    /\ pc = "caller"
    /\ codec.flat_params # NoneArray
    /\ frame.called
    /\ ~frame.raised
    /\ codec' = [codec EXCEPT !.params1 = slap_params(codec.gstate, frame.ret)]
    /\ UNCHANGED <<adam, ctor_args, pc, run, outcome, frame, trace, update_calls, function_calls>>

\* the caller decodes what it has encoded
RoundTrip ==
    /\ pc = "caller"
    /\ codec.flat_params # NoneArray
    /\ codec.decoded = NoneArray
    /\ codec' = [codec EXCEPT
                    !.decoded = slap_params(codec.gstate, codec.flat_params)]
    /\ UNCHANGED <<adam, ctor_args, pc, run, outcome, frame, trace, update_calls, function_calls>>

NextCodec ==
    \/ \E t \in CodecInputs : TestStrip(t.gstate, t.params, t.grads)
    \/ TestRun
    \/ RunReturn
    \/ TestUpdate
    \/ TestSlap
    \/ RoundTrip

\* the optimizer of the module test, with a caller that encodes and decodes
SpecCodec == InitCodec /\ [][NextCodec]_vars

(***************************************************************************)
(* Properties                                                              *)
(***************************************************************************)
IsZeros(a) == \A j \in DOMAIN a : a[j] = 0

Ops(t, ops) == SelectSeq(t, LAMBDA e : e.op \in ops)

\* the update calls of the trace, those of run and those of the caller
Updates(t) == Ops(t, {"update", "caller_update"})

RunReturned == outcome = [call |-> "run", status |-> "returned"]
RunRaised == outcome = [call |-> "run", status |-> "raised"]

\* C1: when run has done its reset and not yet called the jacobian, the
\* iteration count is 0 and both moment estimates are arrays of zeros with
\* the shape of initial_params, whatever calls came before
ResetAtRunStart ==
    (pc = "for" /\ trace = <<>>) =>
        /\ adam.iteration_count = 0
        /\ Len(adam.gradient_moment) = Len(run.initial_params)
        /\ Len(adam.gradient_square_moment) = Len(run.initial_params)
        /\ IsZeros(adam.gradient_moment)
        /\ IsZeros(adam.gradient_square_moment)

\* C1 witness: a run that has just reset an instance that earlier updates had
\* counted on
ResetAfterEarlierCalls == pc = "for" /\ trace = <<>> /\ run.stale

\* a new instance, constructed with the same arguments, after run's reset
Fresh(initial_params) ==
    Reset(Adam(ctor_args.beta_1, ctor_args.beta_2, ctor_args.clip_grads,
               ctor_args.epsilon, ctor_args.learning_rate,
               ctor_args.learning_rate_decay, ctor_args.scale_grads),
          initial_params)

\* the parameters a run of the instance self produces from params for the
\* gradient sequence gs: params itself, then what each update returns
RECURSIVE Trajectory(_, _, _)
Trajectory(self, params, gs) ==
    IF gs = <<>> THEN <<params>>
    ELSE LET u == update(self, Head(gs), params)
         IN  <<params>> \o Trajectory(u.self, u.ret, Tail(gs))

\* the gradients the jacobian returned in this run, and the parameters this
\* run handed to the jacobian or got back from update
RunGrads == [k \in 1..Len(Ops(trace, {"update"})) |-> Ops(trace, {"update"})[k].grads]
RunTrajectory ==
    <<run.initial_params>>
    \o [k \in 1..Len(Ops(trace, {"update"})) |-> Ops(trace, {"update"})[k].ret]

\* C2: the parameters of a run, on an instance with any earlier runs and
\* updates behind it, are those a run of a new instance with the same
\* configuration produces from the same initial parameters and gradients
RunIsDeterministic ==
    run.initial_params # NoneArray =>
        /\ RunTrajectory = Trajectory(Fresh(run.initial_params),
                                      run.initial_params, RunGrads)
        /\ \A k \in 1..Len(trace) :
               trace[k].op = "jacobian" =>
                   trace[k].params = RunTrajectory[(k + 1) \div 2]

\* C2 witness: a run of two iterations with a non-zero gradient has returned
\* on an instance that earlier calls had used
RerunReturned ==
    /\ RunReturned
    /\ run.stale
    /\ Len(RunGrads) = 2
    /\ ~IsZeros(RunGrads[1])

CountsUpdates ==
    /\ adam.gradient_moment # NoneArray =>
           /\ adam.iteration_count = update_calls
           /\ adam.iteration_count = Len(Updates(trace))
           /\ frame.called =>
                  /\ frame.iteration_count = update_calls
                  /\ frame.iteration_count >= 1
    /\ pc # "caller" =>
           adam.iteration_count \in 0..run.iteration_count
    /\ RunReturned => adam.iteration_count = run.iteration_count

\* C4 witness: a run of two iterations has returned with a count of 2
CountIsTwoAtReturn ==
    RunReturned /\ adam.iteration_count = 2 /\ frame.iteration_count = 2

\* C5: the gradient that enters the moment updates is the argument scaled
\* (if scale_grads is set) and then clipped (if clip_grads is set), a stage
\* that is not set leaving it unchanged; with clip_grads set every element
\* of it lies within [-clip_grads, clip_grads]
ClippedGradientInBounds ==
    (frame.called /\ adam.gradient_moment # NoneArray) =>
        /\ ~adam.apply_scale_grads /\ ~adam.apply_clip_grads =>
               frame.grads = frame.grads_in
        /\ adam.apply_clip_grads =>
               \A j \in DOMAIN frame.grads :
                   /\ IsFinite(frame.grads[j])
                   /\ frame.grads[j] >= -adam.clip_grads
                   /\ frame.grads[j] <= adam.clip_grads

\* C6: the k-th update after a run steps with
\* initial_rate * exp(-(k - 1) / decay) when decay is set, which for k = 1
\* is the initial rate itself and for k > 1 is less, and with the initial
\* rate when decay is not set
DecayUsesCountBeforeIncrement ==
    (frame.called /\ adam.gradient_moment # NoneArray) =>
        /\ frame.learning_rate =
               IF adam.apply_learning_rate_decay
               THEN FMul(adam.initial_learning_rate,
                         FExp(FNeg(FDiv(Int2F(update_calls - 1),
                                        adam.learning_rate_decay))))
               ELSE adam.initial_learning_rate
        /\ update_calls = 1 => frame.learning_rate = adam.initial_learning_rate
        /\ adam.apply_learning_rate_decay /\ update_calls > 1 =>
               frame.learning_rate < adam.initial_learning_rate

\* C6 witness: the second update after a run, with decay set
SecondUpdateDecayed ==
    /\ frame.called
    /\ ~frame.raised
    /\ adam.apply_learning_rate_decay
    /\ update_calls = 2

\* C7: when every gradient since the reset has been zero, update returns
\* its params argument unchanged and both moments are still zero
ZeroGradientNoOp ==
    (/\ frame.called
     /\ ~frame.raised
     /\ \A k \in 1..Len(Updates(trace)) : IsZeros(Updates(trace)[k].grads)) =>
        /\ frame.ret = frame.params
        /\ IsZeros(adam.gradient_moment)
        /\ IsZeros(adam.gradient_square_moment)

\* the configuration of the module test: Adam()
ReferenceConfiguration ==
    ctor_args = [beta_1 |-> DefaultBeta1, beta_2 |-> DefaultBeta2,
                 clip_grads |-> None, epsilon |-> DefaultEpsilon,
                 learning_rate |-> DefaultLearningRate,
                 learning_rate_decay |-> None, scale_grads |-> None]

\* after a reset the caller's first update is update(grads, params0)
FirstReferenceUpdate ==
    /\ ReferenceConfiguration
    /\ adam.gradient_moment # NoneArray
    /\ Len(trace) >= 1
    /\ trace[1] = Event("caller_update", TestParams, TestGrads, trace[1].ret)

\* ... and its second is update(grads, params1), on what the first returned
SecondReferenceUpdate ==
    /\ FirstReferenceUpdate
    /\ Len(trace) = 2
    /\ trace[2] = Event("caller_update", trace[1].ret, TestGrads, trace[2].ret)

\* ... or, as the module test calls it, update(params1, grads): params1 as
\* the gradient and the original array as the parameters
SecondTestUpdate ==
    /\ FirstReferenceUpdate
    /\ Len(trace) = 2
    /\ trace[2] = Event("caller_update", TestParams, TestParams1, trace[2].ret)

\* C8 as stated: the first update returns about params1 and a second update
\* with the same gradient on params1 returns about
\* [[0, 0.99900003], [1.99900001, 2.99900001]]
ReferenceScenarioAsStated ==
    /\ FirstReferenceUpdate => AllClose(trace[1].ret, TestParams1)
    /\ SecondReferenceUpdate => AllClose(trace[2].ret, TestParams2)

\* C8 amended: the first update returns about params1; a second update with
\* the same gradient on params1 returns about [[0, 0.998], [1.998, 2.998]];
\* [[0, 0.99900003], [1.99900001, 2.99900001]] is what the second call of
\* the module test returns, which hands params1 over as the gradient
ReferenceScenario ==
    /\ FirstReferenceUpdate => AllClose(trace[1].ret, TestParams1)
    /\ SecondReferenceUpdate =>
           AllClose(trace[2].ret, <<0, Milli(998), Milli(1998), Milli(2998)>>)
    /\ SecondTestUpdate => AllClose(trace[2].ret, TestParams2)

\* C8 witness: the two updates with the same gradient have been made
SecondReferenceUpdateMade == SecondReferenceUpdate /\ ~frame.raised

\* options that contradict their meaning: a negative beta, a zero epsilon
Inconsistent(args) == args.beta_1 < 0 \/ args.beta_2 < 0 \/ args.epsilon = 0

\* C9 as stated: construction with inconsistent options fails, so that no
\* such instance exists
InconsistentOptionsRejected == Inconsistent(ctor_args) => pc = "failed"

\* C9 amended: construction with inconsistent options succeeds, and the
\* instance holds the values as they were given, never clamped
InconsistentOptionsStored ==
    Inconsistent(ctor_args) =>
        /\ pc # "failed"
        /\ adam.beta_1 = ctor_args.beta_1
        /\ adam.beta_2 = ctor_args.beta_2
        /\ adam.epsilon = ctor_args.epsilon
        /\ adam.initial_learning_rate = ctor_args.learning_rate

\* C9 witness: an instance with inconsistent options has been run and its
\* update has returned
InconsistentInstanceUsed ==
    /\ Inconsistent(ctor_args)
    /\ outcome = [call |-> "update", status |-> "returned"]

\* C10: once the jacobian has raised, run is over and the caller has the
\* exception: the run makes no further jacobian or update call, and the
\* iteration count is the number of updates the run had completed
RaiseEndsRun ==
    /\ \A k \in 1..Len(trace) :
           trace[k].op = "jacobian_raised" =>
               \A j \in (k + 1)..Len(trace) : trace[j].op = "caller_update"
    /\ (Len(trace) > 0 /\ trace[Len(trace)].op = "jacobian_raised") =>
           /\ pc = "caller"
           /\ RunRaised
           /\ adam.iteration_count = Len(Ops(trace, {"update"}))
           /\ adam.iteration_count = run.i

\* C10 witness: the jacobian has raised in the second iteration of a run
RaisedAfterOneUpdate == RunRaised /\ adam.iteration_count = 1

\* a < b on floats: false when either is nan
FLess(a, b) == ~IsNaN(a) /\ ~IsNaN(b) /\ a < b

\* a step from one update that returned to the next update after the same
\* reset
NextUpdate ==
    /\ frame.called
    /\ ~frame.raised
    /\ frame'.called
    /\ ~frame'.raised
    /\ frame'.iteration_count = frame.iteration_count + 1

\* C11 as stated: with learning_rate_decay set to any value that is not
\* None, each update steps with a strictly smaller rate than the update
\* before it
DecayStrictlyDecreasing ==
    [][(adam.apply_learning_rate_decay /\ NextUpdate) =>
           FLess(frame'.learning_rate, frame.learning_rate)]_vars

\* C11 amended: with a positive decay constant each update steps with a
\* strictly smaller rate than the update before it; with a negative one the
\* rate is strictly greater each time; with 0 the first rate is nan and
\* every later one is 0
DecayFollowsSign ==
    [][(adam.apply_learning_rate_decay /\ NextUpdate) =>
           /\ adam.learning_rate_decay > 0 =>
                  FLess(frame'.learning_rate, frame.learning_rate)
           /\ adam.learning_rate_decay < 0 =>
                  FLess(frame.learning_rate, frame'.learning_rate)
           /\ adam.learning_rate_decay = 0 =>
                  /\ frame'.learning_rate = 0
                  /\ frame.learning_rate =
                         IF frame.iteration_count = 1 THEN NaN ELSE 0]_vars

\* C11 witness: the second update of a run with a positive decay constant
\* has returned
SecondRateOfRun ==
    /\ pc = "for"
    /\ frame.called
    /\ ~frame.raised
    /\ frame.iteration_count = 2
    /\ adam.apply_learning_rate_decay
    /\ adam.learning_rate_decay > 0

\* the number of elements of a two-dimensional array
Size(a) == Len(flatten(a))

\* C12: decoding the encoding of a parameter set gives exactly that set,
\* real or complex; the encoding is a flat array of one real per real
\* element and of two reals, the real and the imaginary part, per complex
\* element
CodecRoundTrip ==
    /\ codec.flat_params # NoneArray =>
           /\ Len(codec.flat_params) =
                  IF codec.gstate.complex_params
                  THEN 2 * Size(codec.params) ELSE Size(codec.params)
           /\ \A j \in 1..Size(codec.params) :
                  IF codec.gstate.complex_params
                  THEN flatten(codec.params)[j] =
                           Complex(codec.flat_params[j],
                                   codec.flat_params[Size(codec.params) + j])
                  ELSE flatten(codec.params)[j] = codec.flat_params[j]
    /\ codec.decoded # NoneArray => codec.decoded = codec.params

\* C12 witness: the complex array of the module test has been encoded and
\* decoded
TestParamsDecoded ==
    /\ codec.decoded # NoneArray
    /\ codec.gstate.complex_params
    /\ codec.params = TestComplexParams

\* the components whose gradient has been zero in every update since the
\* reset
ZeroGradientComponents ==
    {j \in DOMAIN frame.params :
        \A k \in 1..Len(Updates(trace)) : Updates(trace)[k].grads[j] = 0}

\* C13: a component whose gradient has been zero in every update since the
\* reset is returned with exactly its input value, whatever the gradients of
\* the other components and the clip and scale options, as long as no
\* gradient was all zero with scaling enabled
ZeroGradientComponentKept ==
    (/\ frame.called
     /\ ~frame.raised
     /\ adam.apply_scale_grads =>
            \A k \in 1..Len(Updates(trace)) : ~IsZeros(Updates(trace)[k].grads)) =>
        \A j \in ZeroGradientComponents : frame.ret[j] = frame.params[j]

\* C14: the instance differs from a newly constructed one in nothing but
\* iteration_count and the two moments, whatever run and update calls it
\* has had; the arrays passed to update as grads and params are after the
\* call what they were before it; the array passed to run as initial_params
\* is never changed by the run
OnlyCountAndMomentsChange ==
    /\ [adam EXCEPT !.iteration_count = 0,
                    !.gradient_moment = NoneArray,
                    !.gradient_square_moment = NoneArray]
           = Adam(ctor_args.beta_1, ctor_args.beta_2, ctor_args.clip_grads,
                  ctor_args.epsilon, ctor_args.learning_rate,
                  ctor_args.learning_rate_decay, ctor_args.scale_grads)
    /\ frame.called =>
           /\ frame.grads_arg = frame.grads_in
           /\ frame.params_arg = frame.params
    /\ run.initial_params # NoneArray =>
           run.initial_array = run.initial_params

\* C14 witness: the first update of a run has returned, with scaling set,
\* a gradient that scaling changed and parameters that the step changed
ScaledFirstUpdateOfRun ==
    /\ pc = "for"
    /\ run.i = 1
    /\ frame.called
    /\ ~frame.raised
    /\ adam.apply_scale_grads
    /\ frame.grads # frame.grads_in
    /\ frame.ret # frame.params

\* C15: an update call on an instance that no run has initialized raises
\* and returns nothing; an update that returned was made after a run, on
\* moments that run had set
UninitializedUpdateRaises ==
    /\ (frame.called /\ run.initial_params = NoneArray) =>
           /\ frame.raised
           /\ frame.ret = NoneArray
           /\ outcome = [call |-> "update", status |-> "raised"]
           /\ adam.gradient_moment = NoneArray
           /\ adam.gradient_square_moment = NoneArray
    /\ (frame.called /\ ~frame.raised) =>
           /\ run.initial_params # NoneArray
           /\ adam.gradient_moment # NoneArray
           /\ adam.gradient_square_moment # NoneArray
    /\ outcome = [call |-> "update", status |-> "returned"] =>
           run.initial_params # NoneArray

\* C15 witness: the caller has called update on a new instance, before any
\* run
UpdateBeforeRun ==
    /\ run.initial_params = NoneArray
    /\ frame.called
    /\ outcome.call = "update"

====
